---- MODULE Spec2Model ----
(***************************************************************************)
(* Archetype-based ECS store of src/logic/world.rs: World, Archetype,      *)
(* ComponentStore, the entity registry and the operations spawn, despawn,  *)
(* add_component, remove_component and get_component_mut; ChainedIterator  *)
(* of src/logic/iterator.rs; the query facility and the column locks       *)
(* (src/logic/query.rs), modelled from the specification; the Logger of    *)
(* src/log.rs with its three mutexes.                                      *)
(*                                                                         *)
(* Rust indices are 0-based and are kept 0-based here: entity indices,     *)
(* archetype indices, rows and column positions are the numbers the code   *)
(* uses; Idx(s, i) reads position i of a Vec.                              *)
(*                                                                         *)
(* A component value of Rust type T is the record [ty |-> T, val |-> k];   *)
(* a TypeId is a number of TypeIds, ordered as TypeId's Ord orders them.   *)
(***************************************************************************)
EXTENDS Integers, Sequences, FiniteSets, TLC

\* Bounds of the model: the spawn calls and the calls that change the World.
MaxSpawns == 3
MaxOps == 3

\* The component types the callers use (their TypeIds) and the values of a type.
TypeIds == {1, 2}
Vals == {0, 1}
Component == [ty : TypeIds, val : Vals]
NoComponent == [ty |-> 0, val |-> 0]
NoEntity == [index |-> 0 - 1, generation |-> 0 - 1]

\* archetypes, bundle_id_to_archetype, entities, free_entities: the fields of World.
\* last: the latest call that changed the World, its arguments and its result.
\* issued: the handles spawn has returned; despawned: those despawn has accepted.
\* held: for each live entity index, the component values its owner gave it last
\*       (by spawn or add_component, less those taken back by remove_component).
\* steps: the number of calls that have changed the World.
\* locks: the state of the RwLock of each column that is locked, by column
\*        <<archetype index, TypeId>>; a column not in the domain is unlocked.
\* borrows: for each holder of a query result (Query, Single or SingleMut), the
\*        lock guards it holds, each [col, mode].
\* inflight: for each caller, the call of a World method it is in the middle of:
\*        the states the World has yet to pass through, or <<>> when it is in none.
\* logger: the Logger of src/log.rs, its mutexes and the threads that call it.
\* chain: a ChainedIterator that is being driven, and what it has yielded.
VARIABLES archetypes, bundle_id_to_archetype, entities, free_entities,
          last, issued, despawned, held, steps, locks, borrows,
          inflight, logger, chain

vars == <<archetypes, bundle_id_to_archetype, entities, free_entities,
          last, issued, despawned, held, steps, locks, borrows,
          inflight, logger, chain>>

\* struct World
World ==
    [archetypes |-> archetypes,
     bundle_id_to_archetype |-> bundle_id_to_archetype,
     entities |-> entities,
     free_entities |-> free_entities]

----------------------------------------------------------------------------
\* Vec helpers

\* v[i] of a Vec, i counted from 0
Idx(s, i) == s[i + 1]

\* v[i] = x
SetIdx(s, i, x) == [s EXCEPT ![i + 1] = x]

\* mutant: push instead of insert
VecInsert_at_end(s, i, x) == Append(s, x)

\* Vec::insert(i, x)
VecInsert(s, i, x) == SubSeq(s, 1, i) \o <<x>> \o SubSeq(s, i + 1, Len(s))

\* mutant: nothing is removed
VecRemove_nothing(s, i) == s

\* Vec::remove(i)
VecRemove(s, i) == SubSeq(s, 1, i) \o SubSeq(s, i + 2, Len(s))

\* mutant: the last element is dropped and element i stays
swap_remove_pop(s, i) == SubSeq(s, 1, Len(s) - 1)

\* Vec::swap_remove(i): the last element takes the place of element i
swap_remove(s, i) ==
    [j \in 1..(Len(s) - 1) |-> IF j = i + 1 THEN s[Len(s)] ELSE s[j]]

\* slice::sort_unstable_by on keys that are pairwise distinct: the element of
\* rank k (k - 1 elements have a smaller key) goes to position k
sort_unstable_by(s, Key(_)) ==
    [k \in 1..Len(s) |->
        s[CHOOSE i \in 1..Len(s) :
            Cardinality({j \in 1..Len(s) : Key(s[j]) < Key(s[i])}) = k - 1]]

\* slice::binary_search over the half-open range lo..hi
RECURSIVE binary_search_from(_, _, _, _)
binary_search_from(s, x, lo, hi) ==
    IF lo >= hi THEN [found |-> FALSE, index |-> lo]
    ELSE LET mid == lo + ((hi - lo) \div 2) IN
         IF Idx(s, mid) = x THEN [found |-> TRUE, index |-> mid]
         ELSE IF Idx(s, mid) < x THEN binary_search_from(s, x, mid + 1, hi)
         ELSE binary_search_from(s, x, lo, mid)

\* Ok(i) is [found |-> TRUE, index |-> i], Err(i) is [found |-> FALSE, index |-> i]
binary_search(s, x) == binary_search_from(s, x, 0, Len(s))

\* calculate_bundle_id: the hash of the TypeId sequence, in the order given.
\* DefaultHasher is modelled as a collision-free positional code of the sequence.
RECURSIVE calculate_bundle_id(_)
calculate_bundle_id(types) ==
    IF types = <<>> THEN 1
    ELSE calculate_bundle_id(SubSeq(types, 1, Len(types) - 1))
             * (Cardinality(TypeIds) + 1)
         + types[Len(types)]

----------------------------------------------------------------------------
\* ComponentStore and Archetype

\* ComponentStore::new::<T>()
ComponentStore_new(T) == [type_id |-> T, data |-> <<>>]

\* ComponentStore::new_same_type
new_same_type(c) == [type_id |-> c.type_id, data |-> <<>>]

\* Archetype::new
Archetype_new == [entities |-> <<>>, components |-> <<>>]

\* the TypeIds of an archetype's stores, in storage order
type_ids_of(a) == [i \in 1..Len(a.components) |-> a.components[i].type_id]

\* mutant: the value is put in front of the column
push_front(a, component_index, t) ==
    [a EXCEPT !.components[component_index + 1].data = <<t>> \o @]

\* Archetype::push
push(a, component_index, t) ==
    [a EXCEPT !.components[component_index + 1].data = Append(@, t)]

\* mutant: the value is written to the first row of the column
replace_component_first_row(a, component_index, index, t) ==
    [a EXCEPT !.components[component_index + 1].data = SetIdx(@, 0, t)]

\* mutant: the value is written to every row of the column
replace_component_whole_column(a, component_index, index, t) ==
    [a EXCEPT !.components[component_index + 1].data = [r \in DOMAIN @ |-> t]]

\* Archetype::replace_component
replace_component(a, component_index, index, t) ==
    [a EXCEPT !.components[component_index + 1].data = SetIdx(@, index, t)]

\* mutant: the row is removed from the entity list and left in the columns
remove_entity_columns_kept(a, index) ==
    [arch |-> [a EXCEPT !.entities = swap_remove(@, index)],
     moved |-> a.entities[Len(a.entities)]]

\* mutant: the row is removed from the columns and left in the entity list
remove_entity_list_kept(a, index) ==
    [arch |-> [a EXCEPT !.components =
                  [i \in 1..Len(a.components) |->
                      [a.components[i] EXCEPT !.data = swap_remove(@, index)]]],
     moved |-> a.entities[Len(a.entities)]]

\* Archetype::remove_entity: the archetype afterwards and the entity that was last
remove_entity(a, index) ==
    [arch |-> [entities |-> swap_remove(a.entities, index),
               components |-> [i \in 1..Len(a.components) |->
                   [a.components[i] EXCEPT !.data = swap_remove(@, index)]]],
     moved |-> a.entities[Len(a.entities)]]

\* mutant: the value goes to the column of the same position in other_archetype
migrate_component_same_index(pair, component_index, entity_index, other_index) ==
    LET data == Idx(pair.old.components[component_index + 1].data, entity_index) IN
    [old |-> [pair.old EXCEPT !.components[component_index + 1].data =
                  swap_remove(@, entity_index)],
     new |-> push(pair.new, component_index, data)]

\* mutant: the value is copied to other_archetype and left in the old column
migrate_component_copy(pair, component_index, entity_index, other_index) ==
    LET data == Idx(pair.old.components[component_index + 1].data, entity_index) IN
    [old |-> pair.old,
     new |-> push(pair.new, other_index, data)]

\* Archetype::migrate_component (ComponentColumn::migrate): swap_remove row
\* entity_index of column component_index, push it onto column other_index of
\* other_archetype. pair is [old, new].
migrate_component(pair, component_index, entity_index, other_index) ==
    LET data == Idx(pair.old.components[component_index + 1].data, entity_index) IN
    [old |-> [pair.old EXCEPT !.components[component_index + 1].data =
                  swap_remove(@, entity_index)],
     new |-> push(pair.new, other_index, data)]

\* for i in lo..hi { old.migrate_component(i, row, new, i + shift) }
RECURSIVE migrate_range(_, _, _, _, _)
migrate_range(pair, lo, hi, row, shift) ==
    IF lo >= hi THEN pair
    ELSE migrate_range(migrate_component(pair, lo, row, lo + shift),
                       lo + 1, hi, row, shift)

\* mutant: a type that no store has is looked up in the first store
component_index_of_or_first(a, T) ==
    IF \E i \in 1..Len(a.components) : a.components[i].type_id = T
    THEN (CHOOSE i \in 1..Len(a.components) : a.components[i].type_id = T) - 1
    ELSE IF a.components # <<>> THEN 0 ELSE 0 - 1

\* the linear scan of Archetype::get_component_mut: position of the first store
\* of type T, or -1
component_index_of(a, T) ==
    IF \E i \in 1..Len(a.components) : a.components[i].type_id = T
    THEN (CHOOSE i \in 1..Len(a.components) :
             /\ a.components[i].type_id = T
             /\ \A j \in 1..(i - 1) : a.components[j].type_id # T) - 1
    ELSE 0 - 1

\* the entity id EntityMissingComponent::new is given by Archetype::get_component_mut
missing_id_in_archetype(index) == index

\* Archetype::get_component_mut
Archetype_get_component_mut(a, T, index) ==
    LET component_index == component_index_of(a, T) IN
    IF component_index >= 0
    THEN [res |-> "Ok",
          out |-> Idx(a.components[component_index + 1].data, index),
          err_id |-> 0 - 1]
    ELSE [res |-> "EntityMissingComponent", out |-> NoComponent,
          err_id |-> missing_id_in_archetype(index)]

\* index_twice: (slice[first], slice[second]) as [old, new]
index_twice(slice, first, second) ==
    IF first < second
    THEN LET a == SubSeq(slice, 1, second)
             b == SubSeq(slice, second + 1, Len(slice))
         IN [old |-> Idx(a, first), new |-> Idx(b, 0)]
    ELSE LET a == SubSeq(slice, 1, first)
             b == SubSeq(slice, first + 1, Len(slice))
         IN [old |-> Idx(b, 0), new |-> Idx(a, second)]

----------------------------------------------------------------------------
\* ComponentBundle (the tuple impls of component_bundle_impl!)

\* A bundle is the tuple of component values in declaration order; its types are
\* pairwise distinct (the debug_assert of spawn_in_world).
RECURSIVE SeqsOver(_, _)
SeqsOver(S, n) ==
    IF n = 0 THEN {<<>>}
    ELSE {Append(q, x) : q \in SeqsOver(S, n - 1), x \in S}

Bundles ==
    {b \in UNION {SeqsOver(Component, n) : n \in 1..Cardinality(TypeIds)} :
        \A i, j \in 1..Len(b) : i # j => b[i].ty # b[j].ty}

\* types: [($index, TypeId::of::<$name>())...] after sort_unstable_by on the TypeId
sorted_types(b) ==
    sort_unstable_by([i \in 1..Len(b) |-> [idx |-> i - 1, type_id |-> b[i].ty]],
                     LAMBDA x : x.type_id)

\* mutant: the values are pushed in declaration order, as if order[i] = i
bundle_order_declared(b) == [i \in 0..(Len(b) - 1) |-> i]

\* order[types[i].0] = i: declaration position -> position in sorted order
bundle_order(b) ==
    [i \in 0..(Len(b) - 1) |->
        (CHOOSE k \in 1..Len(b) : sorted_types(b)[k].idx = i) - 1]

\* mutant: the TypeIds are hashed in declaration order, unsorted
bundle_types_declared(b) == [k \in 1..Len(b) |-> b[k].ty]

\* let types = [types[$index].1 ...]: the TypeIds that are hashed
bundle_types(b) == [k \in 1..Len(b) |-> sorted_types(b)[k].type_id]

\* ComponentBundle::new_archetype
new_archetype(b) ==
    [entities |-> <<>>,
     components |-> sort_unstable_by([i \in 1..Len(b) |-> ComponentStore_new(b[i].ty)],
                                     LAMBDA c : c.type_id)]

\* $(world.archetypes[archetype_index].push(order[$index], self.$index);)*
RECURSIVE push_bundle(_, _, _, _)
push_bundle(a, b, order, i) ==
    IF i >= Len(b) THEN a
    ELSE push_bundle(push(a, order[i], b[i + 1]), b, order, i + 1)

\* mutant: the insertion drops the entries the map had
map_insert_alone(m, k, v) == [x \in {k} |-> v]

\* bundle_id_to_archetype.insert(bundle_id, new_archetype_index)
map_insert(m, k, v) == [x \in DOMAIN m \cup {k} |-> IF x = k THEN v ELSE m[x]]

\* ComponentBundle::spawn_in_world
spawn_in_world(w, b, entity_index) ==
    LET order == bundle_order(b)
        bundle_id == calculate_bundle_id(bundle_types(b))
        found == bundle_id \in DOMAIN w.bundle_id_to_archetype
        archetype_index ==
            IF found THEN w.bundle_id_to_archetype[bundle_id] ELSE Len(w.archetypes)
        w1 == IF found THEN w
              ELSE [w EXCEPT
                      !.bundle_id_to_archetype = map_insert(@, bundle_id, archetype_index),
                      !.archetypes = Append(@, new_archetype(b))]
        a0 == Idx(w1.archetypes, archetype_index)
        a1 == [a0 EXCEPT !.entities = Append(@, entity_index)]
        a2 == push_bundle(a1, b, order, 0)
    IN [world |-> [w1 EXCEPT !.archetypes = SetIdx(@, archetype_index, a2)],
        location |-> [archetype_index |-> archetype_index,
                      index_in_archetype |-> Len(a2.entities) - 1]]

----------------------------------------------------------------------------
\* World

\* World::new
World_new ==
    [archetypes |-> <<>>,
     bundle_id_to_archetype |-> [k \in {} |-> 0],
     entities |-> <<>>,
     free_entities |-> <<>>]

\* mutant: the free list is used as a queue, the oldest free index is taken
spawn_oldest_freed(w, b) ==
    LET reuse == w.free_entities # <<>>
        index == IF reuse THEN w.free_entities[1] ELSE Len(w.entities)
        generation == IF reuse THEN Idx(w.entities, index).generation + 1 ELSE 0
        w1 == IF reuse
              THEN [w EXCEPT !.free_entities = Tail(@)]
              ELSE [w EXCEPT !.entities =
                        Append(@, [generation |-> 0,
                                   location |-> [archetype_index |-> 0,
                                                 index_in_archetype |-> 0]])]
        r == spawn_in_world(w1, b, index)
    IN [world |-> [r.world EXCEPT !.entities =
                       SetIdx(@, index, [generation |-> generation,
                                         location |-> r.location])],
        entity |-> [index |-> index, generation |-> generation]]

\* World::spawn
spawn(w, b) ==
    LET reuse == w.free_entities # <<>>
        index == IF reuse THEN w.free_entities[Len(w.free_entities)]
                 ELSE Len(w.entities)
        generation == IF reuse THEN Idx(w.entities, index).generation + 1 ELSE 0
        w1 == IF reuse
              THEN [w EXCEPT !.free_entities = SubSeq(@, 1, Len(@) - 1)]
              ELSE [w EXCEPT !.entities =
                        Append(@, [generation |-> 0,
                                   location |-> [archetype_index |-> 0,
                                                 index_in_archetype |-> 0]])]
        r == spawn_in_world(w1, b, index)
    IN [world |-> [r.world EXCEPT !.entities =
                       SetIdx(@, index, [generation |-> generation,
                                         location |-> r.location])],
        entity |-> [index |-> index, generation |-> generation]]

\* the result of an operation that panics: the call does not return, the World is
\* as it was when the fault was raised
Panic(w) ==
    [world |-> w, res |-> "Panic", out |-> NoComponent, err_id |-> 0 - 1]

\* self.entities[entity.index as usize]: the index is checked against the length
slot_in_range(w, entity) == entity.index >= 0 /\ entity.index < Len(w.entities)

\* the bounds checks behind archetypes[..], swap_remove(row) and last().unwrap()
location_in_range(w, location) ==
    /\ location.archetype_index < Len(w.archetypes)
    /\ location.index_in_archetype <
           Len(Idx(w.archetypes, location.archetype_index).entities)
    /\ \A c \in 1..Len(Idx(w.archetypes, location.archetype_index).components) :
           location.index_in_archetype <
               Len(Idx(w.archetypes, location.archetype_index).components[c].data)

\* mutant: a handle is accepted when the slot's generation is not behind it
generation_matches_ge(entity_info, entity) == entity_info.generation >= entity.generation

\* entity_info.generation == entity.generation
generation_matches(entity_info, entity) == entity_info.generation = entity.generation

\* mutant: the slot's generation is incremented before it is compared
despawn_increment_first(w, entity) ==
    IF ~slot_in_range(w, entity) THEN Panic(w)
    ELSE
    LET entity_info == Idx(w.entities, entity.index)
        ents1 == [w.entities EXCEPT ![entity.index + 1].generation = @ + 1]
    IN
    IF generation_matches(entity_info, entity)
    THEN IF ~location_in_range(w, entity_info.location) THEN Panic(w)
         ELSE
         LET r == remove_entity(Idx(w.archetypes, entity_info.location.archetype_index),
                                entity_info.location.index_in_archetype)
             ents2 == [ents1 EXCEPT ![r.moved + 1].location = entity_info.location]
         IN [world |-> [w EXCEPT
                          !.entities = ents2,
                          !.archetypes =
                              SetIdx(@, entity_info.location.archetype_index, r.arch),
                          !.free_entities = Append(@, entity.index)],
             res |-> "Ok", out |-> NoComponent, err_id |-> 0 - 1]
    ELSE [world |-> [w EXCEPT !.entities = ents1],
          res |-> "NoSuchEntity", out |-> NoComponent, err_id |-> 0 - 1]

\* mutant: the index of the despawned entity is not pushed onto free_entities
despawn_not_freed(w, entity) ==
    IF ~slot_in_range(w, entity) THEN Panic(w)
    ELSE
    LET entity_info == Idx(w.entities, entity.index) IN
    IF generation_matches(entity_info, entity)
    THEN IF ~location_in_range(w, entity_info.location) THEN Panic(w)
         ELSE
         LET ents1 == [w.entities EXCEPT ![entity.index + 1].generation = @ + 1]
             r == remove_entity(Idx(w.archetypes, entity_info.location.archetype_index),
                                entity_info.location.index_in_archetype)
             ents2 == [ents1 EXCEPT ![r.moved + 1].location = entity_info.location]
         IN [world |-> [w EXCEPT
                          !.entities = ents2,
                          !.archetypes =
                              SetIdx(@, entity_info.location.archetype_index, r.arch)],
             res |-> "Ok", out |-> NoComponent, err_id |-> 0 - 1]
    ELSE [world |-> w, res |-> "NoSuchEntity", out |-> NoComponent, err_id |-> 0 - 1]

\* World::despawn
despawn(w, entity) ==
    IF ~slot_in_range(w, entity) THEN Panic(w)
    ELSE
    LET entity_info == Idx(w.entities, entity.index) IN
    IF generation_matches(entity_info, entity)
    THEN IF ~location_in_range(w, entity_info.location) THEN Panic(w)
         ELSE
         LET ents1 == [w.entities EXCEPT ![entity.index + 1].generation = @ + 1]
             r == remove_entity(Idx(w.archetypes, entity_info.location.archetype_index),
                                entity_info.location.index_in_archetype)
             ents2 == [ents1 EXCEPT ![r.moved + 1].location = entity_info.location]
         IN [world |-> [w EXCEPT
                          !.entities = ents2,
                          !.archetypes =
                              SetIdx(@, entity_info.location.archetype_index, r.arch),
                          !.free_entities = Append(@, entity.index)],
             res |-> "Ok", out |-> NoComponent, err_id |-> 0 - 1]
    ELSE [world |-> w, res |-> "NoSuchEntity", out |-> NoComponent, err_id |-> 0 - 1]

\* World::get_component_mut
get_component_mut(w, entity, T) ==
    IF ~slot_in_range(w, entity) THEN Panic(w)
    ELSE
    LET entity_info == Idx(w.entities, entity.index) IN
    IF generation_matches(entity_info, entity)
    THEN IF ~location_in_range(w, entity_info.location) THEN Panic(w)
         ELSE
         LET r == Archetype_get_component_mut(
                      Idx(w.archetypes, entity_info.location.archetype_index), T,
                      entity_info.location.index_in_archetype)
         IN [world |-> w, res |-> r.res, out |-> r.out, err_id |-> r.err_id]
    ELSE [world |-> w, res |-> "NoSuchEntity", out |-> NoComponent, err_id |-> 0 - 1]

\* mutant: the entity moved into the vacated row keeps its old location
fix_moved_location_skipped(ents, old_archetype, location) == ents

\* mutant: the slot of the entity that is moved is given a new generation as well
fix_moved_location_new_generation(ents, old_archetype, location) ==
    IF old_archetype.entities # <<>>
    THEN [ents EXCEPT
            ![old_archetype.entities[Len(old_archetype.entities)] + 1] =
                [generation |-> @.generation + 1, location |-> location]]
    ELSE ents

\* "If an entity is being moved, update its location": the entity in the last row
\* of old_archetype gets the location that is being vacated
fix_moved_location(ents, old_archetype, location) ==
    IF old_archetype.entities # <<>>
    THEN [ents EXCEPT
            ![old_archetype.entities[Len(old_archetype.entities)] + 1].location =
                location]
    ELSE ents

\* mutant: the new row is taken to be the first row of the destination
set_new_location_first_row(ents, entity, new_archetype_index, dest) ==
    [ents EXCEPT ![entity.index + 1].location =
        [archetype_index |-> new_archetype_index, index_in_archetype |-> 0]]

\* self.entities[entity.index].location = { new_archetype_index, new_archetype.len() }
set_new_location(ents, entity, new_archetype_index, dest) ==
    [ents EXCEPT ![entity.index + 1].location =
        [archetype_index |-> new_archetype_index,
         index_in_archetype |-> Len(dest.entities)]]

\* mutant: the entity is pushed onto the new list and left on the old one
move_entity_row_kept(pair, row, entity) ==
    [old |-> pair.old,
     new |-> [pair.new EXCEPT !.entities = Append(@, entity.index)]]

\* old_archetype.entities.swap_remove(row); new_archetype.entities.push(entity.index)
move_entity_row(pair, row, entity) ==
    [old |-> [pair.old EXCEPT !.entities = swap_remove(@, row)],
     new |-> [pair.new EXCEPT !.entities = Append(@, entity.index)]]

\* World::add_component::<T>(entity, t), T = t.ty
add_component(w, entity, t) ==
    IF ~slot_in_range(w, entity) THEN Panic(w)
    ELSE
    LET entity_info == Idx(w.entities, entity.index) IN
    IF ~generation_matches(entity_info, entity)
    THEN [world |-> w, res |-> "NoSuchEntity", out |-> NoComponent, err_id |-> 0 - 1]
    ELSE IF ~location_in_range(w, entity_info.location) THEN Panic(w)
    ELSE
    LET cur == entity_info.location.archetype_index
        row == entity_info.location.index_in_archetype
        current_archetype == Idx(w.archetypes, cur)
        type_ids == type_ids_of(current_archetype)
        bs == binary_search(type_ids, t.ty)
    IN
    IF bs.found
    THEN [world |-> [w EXCEPT !.archetypes =
                        SetIdx(@, cur, replace_component(current_archetype, bs.index, row, t))],
          res |-> "Ok", out |-> NoComponent, err_id |-> 0 - 1]
    ELSE
    LET insert_index == bs.index
        bundle_id == calculate_bundle_id(VecInsert(type_ids, insert_index, t.ty))
        found == bundle_id \in DOMAIN w.bundle_id_to_archetype
        new_archetype_index ==
            IF found THEN w.bundle_id_to_archetype[bundle_id] ELSE Len(w.archetypes)
        archetype ==
            [entities |-> <<>>,
             components |->
                 VecInsert([i \in 1..Len(current_archetype.components) |->
                               new_same_type(current_archetype.components[i])],
                           insert_index, ComponentStore_new(t.ty))]
        w1 == IF found THEN w
              ELSE [w EXCEPT
                      !.bundle_id_to_archetype = map_insert(@, bundle_id, new_archetype_index),
                      !.archetypes = Append(@, archetype)]
    IN
    IF cur = new_archetype_index THEN Panic(w)
    ELSE
    LET pair0 == index_twice(w1.archetypes, cur, new_archetype_index)
        ents1 == fix_moved_location(w1.entities, pair0.old, entity_info.location)
        ents2 == set_new_location(ents1, entity, new_archetype_index, pair0.new)
        pair1 == migrate_range(pair0, 0, insert_index, row, 0)
        pair2 == [pair1 EXCEPT !.new = push(@, insert_index, t)]
        pair3 == migrate_range(pair2, insert_index, Len(pair2.old.components), row, 1)
        pair4 == move_entity_row(pair3, row, entity)
    IN [world |-> [w1 EXCEPT
                     !.entities = ents2,
                     !.archetypes =
                         SetIdx(SetIdx(@, cur, pair4.old), new_archetype_index, pair4.new)],
        res |-> "Ok", out |-> NoComponent, err_id |-> 0 - 1]

\* the entity id EntityMissingComponent::new is given by World::remove_component
missing_id_in_world(entity) == entity.index

\* World::remove_component::<T>(entity)
remove_component(w, entity, T) ==
    IF ~slot_in_range(w, entity) THEN Panic(w)
    ELSE
    LET entity_info == Idx(w.entities, entity.index) IN
    IF ~generation_matches(entity_info, entity)
    THEN [world |-> w, res |-> "NoSuchEntity", out |-> NoComponent, err_id |-> 0 - 1]
    ELSE IF ~location_in_range(w, entity_info.location) THEN Panic(w)
    ELSE
    LET cur == entity_info.location.archetype_index
        row == entity_info.location.index_in_archetype
        current_archetype == Idx(w.archetypes, cur)
        type_ids == type_ids_of(current_archetype)
        bs == binary_search(type_ids, T)
    IN
    IF ~bs.found
    THEN [world |-> w, res |-> "EntityMissingComponent", out |-> NoComponent,
          err_id |-> missing_id_in_world(entity)]
    ELSE
    LET remove_index == bs.index
        bundle_id == calculate_bundle_id(VecRemove(type_ids, remove_index))
        found == bundle_id \in DOMAIN w.bundle_id_to_archetype
        new_archetype_index ==
            IF found THEN w.bundle_id_to_archetype[bundle_id] ELSE Len(w.archetypes)
        archetype ==
            [entities |-> <<>>,
             components |->
                 LET kept == SelectSeq(current_archetype.components,
                                       LAMBDA c : c.type_id # T)
                 IN [i \in 1..Len(kept) |-> new_same_type(kept[i])]]
        w1 == IF found THEN w
              ELSE [w EXCEPT
                      !.bundle_id_to_archetype = map_insert(@, bundle_id, new_archetype_index),
                      !.archetypes = Append(@, archetype)]
    IN
    IF cur = new_archetype_index THEN Panic(w)
    ELSE
    LET pair0 == index_twice(w1.archetypes, cur, new_archetype_index)
        ents1 == fix_moved_location(w1.entities, pair0.old, entity_info.location)
        ents2 == set_new_location(ents1, entity, new_archetype_index, pair0.new)
        pair1 == migrate_range(pair0, 0, remove_index, row, 0)
        pair2 == migrate_range(pair1, remove_index + 1, Len(pair1.old.components),
                               row, 0 - 1)
        pair3 == move_entity_row(pair2, row, entity)
        removed == Idx(pair3.old.components[remove_index + 1].data, row)
        old_archetype == [pair3.old EXCEPT !.components[remove_index + 1].data =
                             swap_remove(@, row)]
    IN [world |-> [w1 EXCEPT
                     !.entities = ents2,
                     !.archetypes =
                         SetIdx(SetIdx(@, cur, old_archetype), new_archetype_index, pair3.new)],
        res |-> "Ok", out |-> removed, err_id |-> 0 - 1]

----------------------------------------------------------------------------
\* ChainedIterator (src/logic/iterator.rs) and the query facility.
\* An iterator is the sequence of the items it has yet to yield; an Option is a
\* sequence of length 0 (None) or 1 (Some).

\* ChainedIterator::new: the last iterator of the Vec becomes the current one
ChainedIterator_new(iterators) ==
    IF iterators = <<>>
    THEN [current_iter |-> <<>>, iterators |-> <<>>]
    ELSE [current_iter |-> <<iterators[Len(iterators)]>>,
          iterators |-> SubSeq(iterators, 1, Len(iterators) - 1)]

\* ChainedIterator::next: the item (an Option) and the iterator afterwards
ChainedIterator_next(ci) ==
    IF ci.current_iter = <<>> THEN [item |-> <<>>, ci |-> ci]
    ELSE LET iter == ci.current_iter[1] IN
         IF iter # <<>>
         THEN [item |-> <<Head(iter)>>,
               ci |-> [ci EXCEPT !.current_iter = <<Tail(iter)>>]]
         ELSE LET popped == ChainedIterator_new(ci.iterators) IN
              IF popped.current_iter = <<>>
              THEN [item |-> <<>>, ci |-> popped]
              ELSE LET it == popped.current_iter[1] IN
                   IF it # <<>>
                   THEN [item |-> <<Head(it)>>,
                         ci |-> [popped EXCEPT !.current_iter = <<Tail(it)>>]]
                   ELSE [item |-> <<>>, ci |-> popped]

\* for item in iterator: the items next() yields up to its first None
RECURSIVE iterate(_)
iterate(ci) ==
    LET r == ChainedIterator_next(ci) IN
    IF r.item = <<>> THEN <<>> ELSE <<r.item[1]>> \o iterate(r.ci)

\* Archetype::get::<T>: the column of the store of type T
Archetype_get(a, T) == a.components[component_index_of(a, T) + 1].data

\* the zipped iteration over the columns of the types Q of one archetype: row r
\* is the tuple of the values in row r of those columns, the shortest column ends it
zip_columns(a, Q) ==
    LET n == CHOOSE m \in 0..Len(a.entities) :
                 /\ \A k \in 1..Len(Q) : m <= Len(Archetype_get(a, Q[k]))
                 /\ \/ m = Len(a.entities)
                    \/ \E k \in 1..Len(Q) : m = Len(Archetype_get(a, Q[k]))
    IN [r \in 1..n |-> [k \in 1..Len(Q) |-> Archetype_get(a, Q[k])[r]]]

\* the indices of the archetypes whose type set is a superset of Q, in storage order
matching_archetypes(w, Q) ==
    SelectSeq([i \in 1..Len(w.archetypes) |-> i - 1],
              LAMBDA i : \A k \in 1..Len(Q) :
                  component_index_of(Idx(w.archetypes, i), Q[k]) >= 0)

\* the Vec handed to ChainedIterator::new, arranged so that the archetype first in
\* storage order is the first it takes
query_iterators(w, Q) ==
    LET m == matching_archetypes(w, Q) IN
    [j \in 1..Len(m) |-> zip_columns(Idx(w.archetypes, m[Len(m) + 1 - j]), Q)]

\* World::query::<Q>() and the iteration of its result to the first None
query(w, Q) ==
    IF matching_archetypes(w, Q) = <<>>
    THEN [res |-> "FetchError", rows |-> <<>>]
    ELSE [res |-> "Ok", rows |-> iterate(ChainedIterator_new(query_iterators(w, Q)))]

\* the archetypes that have a row of T, in storage order
single_archetypes(w, T) ==
    SelectSeq(matching_archetypes(w, <<T>>),
              LAMBDA i : Archetype_get(Idx(w.archetypes, i), T) # <<>>)

\* <&T>::fetch / <&mut T>::fetch: the first value of type T in storage order, or
\* the not-found error when no archetype has a row of T
fetch_single(w, T) ==
    LET m == single_archetypes(w, T)
    IN IF m = <<>>
       THEN [res |-> "FetchError", out |-> NoComponent]
       ELSE [res |-> "Ok", out |-> Idx(Archetype_get(Idx(w.archetypes, m[1]), T), 0)]

\* World::get_single::<T>
get_single(w, T) == fetch_single(w, T)

\* World::get_single_mut::<T>
get_single_mut(w, T) == fetch_single(w, T)

----------------------------------------------------------------------------
\* Logger (src/log.rs): three mutexes, each around one field.

\* the threads that call the Logger
Threads == {1, 2}

\* enum Severity: Debug = 0, Info, Warn, Error, Fatal, None
Severities == 0..5

\* the levels of the methods debug, info, warn, error and fatal
MethodLevels == 0..4

Mutexes == {"severity", "log_path", "log_writer"}

\* Logger::new. log_path and log_writer are TRUE when the Option is Some. owner is
\* the thread that holds the guard of a mutex (0: none); poisoned is set when a
\* thread panicked holding it. pc is where each thread is in the Logger's code.
Logger_new ==
    [severity |-> 0,
     log_path |-> FALSE,
     log_writer |-> FALSE,
     owner |-> [m \in Mutexes |-> 0],
     poisoned |-> [m \in Mutexes |-> FALSE],
     pc |-> [t \in Threads |-> "idle"]]

\* Mutex::lock by thread t: the guard is given, or the Err of a poisoned mutex,
\* when no thread holds the mutex; the call waits while another thread holds it;
\* on a mutex that t itself holds the call never returns
Mutex_lock(lg, m, t) ==
    IF lg.owner[m] = t THEN "relock"
    ELSE IF lg.owner[m] # 0 THEN "wait"
    ELSE IF lg.poisoned[m] THEN "poisoned"
    ELSE "guard"

\* no ChainedIterator is being driven
NoChain == [given |-> <<>>, ci |-> ChainedIterator_new(<<>>), yielded |-> <<>>,
            state |-> "none"]

----------------------------------------------------------------------------
\* The callers

\* what a caller reads through a handle: every component get_component_mut returns
components_of(w, entity) ==
    LET g == [T \in TypeIds |-> get_component_mut(w, entity, T)] IN
    {g[T].out : T \in {U \in TypeIds : g[U].res = "Ok"}}

\* a handle whose index has no registry slot
unallocated(w) == [index |-> Len(w.entities), generation |-> 0]

\* the handles callers pass: those spawn returned (live or stale) and one naming
\* no slot
Handles == issued \cup {unallocated(World)}

\* the handles of the entities that are alive
Live == issued \ despawned

Call(op, entity, bundle, t, r) ==
    [op |-> op, entity |-> entity, bundle |-> bundle, t |-> t,
     res |-> r.res, out |-> r.out]

SetWorld(w) ==
    /\ archetypes' = w.archetypes
    /\ bundle_id_to_archetype' = w.bundle_id_to_archetype
    /\ entities' = w.entities
    /\ free_entities' = w.free_entities

\* the holders of query results
Borrowers == {1, 2}

\* what a call of a World method leaves alone: the Logger and the iterators
Others == <<logger, chain>>

\* a call that takes &mut self: no borrow of the World is alive, &World or
\* &mut World, and none is made
\* mutant: &mut World is given while query results borrow the World
NoBorrowAlive_but_shared == \A h \in Borrowers : inflight[h] = <<>>

\* what &mut self asks of the callers: nobody else has the World borrowed
NoBorrowAlive == \A h \in Borrowers : borrows[h] = <<>> /\ inflight[h] = <<>>

ExclusiveAccess ==
    /\ NoBorrowAlive
    /\ UNCHANGED <<locks, borrows, inflight, Others>>

\* a call that takes &self: no &mut borrow of the World is alive
SharedAccess ==
    /\ \A h \in Borrowers : inflight[h] = <<>>
    /\ UNCHANGED <<inflight, Others>>

\* a call that fails or only reads leaves last and steps as they are
Record(call) ==
    IF call.res = "Ok" /\ call.op # "get_component_mut"
    THEN last' = call /\ steps' = steps + 1
    ELSE UNCHANGED <<last, steps>>

Init ==
    /\ archetypes = World_new.archetypes
    /\ bundle_id_to_archetype = World_new.bundle_id_to_archetype
    /\ entities = World_new.entities
    /\ free_entities = World_new.free_entities
    /\ last = [op |-> "new", entity |-> NoEntity, bundle |-> <<>>, t |-> NoComponent,
               res |-> "Ok", out |-> NoComponent]
    /\ issued = {}
    /\ despawned = {}
    /\ held = [i \in {} |-> {}]
    /\ steps = 0
    /\ locks = [c \in {} |-> 0]
    /\ borrows = [h \in Borrowers |-> <<>>]
    /\ inflight = [h \in Borrowers |-> <<>>]
    /\ logger = Logger_new
    /\ chain = NoChain

\* world.spawn(b), b one of the bundles BS, by callers that make up to ops
\* calls that change the World and up to spawns calls of spawn
SpawnWithin(BS, ops, spawns) ==
    \E b \in BS :
        /\ steps < ops
        /\ Cardinality(issued) < spawns
        /\ LET r == spawn(World, b) IN
           /\ SetWorld(r.world)
           /\ Record(Call("spawn", r.entity, b, NoComponent,
                          [res |-> "Ok", out |-> NoComponent]))
           /\ issued' = issued \cup {r.entity}
           /\ held' = map_insert(held, r.entity.index, {b[i] : i \in 1..Len(b)})
           /\ UNCHANGED despawned
           /\ ExclusiveAccess

SpawnOf(BS) == SpawnWithin(BS, MaxOps, MaxSpawns)

Spawn == SpawnOf(Bundles)

\* world.despawn(entity)
DespawnWithin(ops) ==
    \E entity \in Handles :
        /\ steps < ops
        /\ LET r == despawn(World, entity) IN
           /\ SetWorld(r.world)
           /\ Record(Call("despawn", entity, <<>>, NoComponent, r))
           /\ despawned' = IF r.res = "Ok" THEN despawned \cup {entity} ELSE despawned
           /\ held' = IF r.res = "Ok"
                      THEN [i \in DOMAIN held \ {entity.index} |-> held[i]]
                      ELSE held
           /\ UNCHANGED issued
           /\ ExclusiveAccess

Despawn == DespawnWithin(MaxOps)

\* world.add_component(entity, t), t one of the component values CS
AddComponentWithin(CS, ops) ==
    \E entity \in Handles, t \in CS :
        /\ steps < ops
        /\ LET r == add_component(World, entity, t) IN
           /\ SetWorld(r.world)
           /\ Record(Call("add_component", entity, <<>>, t, r))
           /\ held' = IF r.res = "Ok"
                      THEN [held EXCEPT ![entity.index] =
                               {c \in @ : c.ty # t.ty} \cup {t}]
                      ELSE held
           /\ UNCHANGED <<issued, despawned>>
           /\ ExclusiveAccess

AddComponentOf(CS) == AddComponentWithin(CS, MaxOps)

AddComponent == AddComponentOf(Component)

\* world.remove_component::<T>(entity), T one of the types TS
RemoveComponentWithin(TS, ops) ==
    \E entity \in Handles, T \in TS :
        /\ steps < ops
        /\ LET r == remove_component(World, entity, T) IN
           /\ SetWorld(r.world)
           /\ Record(Call("remove_component", entity, <<>>, [ty |-> T, val |-> 0], r))
           /\ held' = IF r.res = "Ok"
                      THEN [held EXCEPT ![entity.index] = {c \in @ : c.ty # T}]
                      ELSE held
           /\ UNCHANGED <<issued, despawned>>
           /\ ExclusiveAccess

RemoveComponentOf(TS) == RemoveComponentWithin(TS, MaxOps)

RemoveComponent == RemoveComponentOf(TypeIds)

\* world.get_component_mut::<T>(entity)
GetComponentMut ==
    \E entity \in Handles, T \in TypeIds :
        /\ steps < MaxOps
        /\ LET r == get_component_mut(World, entity, T) IN
           /\ SetWorld(r.world)
           /\ Record(Call("get_component_mut", entity, <<>>, [ty |-> T, val |-> 0], r))
           /\ UNCHANGED <<issued, despawned, held>>
           /\ ExclusiveAccess

Next ==
    \/ Spawn
    \/ Despawn
    \/ AddComponent
    \/ RemoveComponent
    \/ GetComponentMut

Spec == Init /\ [][Next]_vars

\* RwLock<Vec<T>>: the lock of a column. Queries, get_single and get_single_mut
\* take &World and reach a column through Archetype::get, that is through its lock.

\* RwLock::new
Unlocked == [readers |-> 0, writer |-> FALSE]

lock_state(l, col) == IF col \in DOMAIN l THEN l[col] ELSE Unlocked

set_lock(l, col, st) ==
    IF st = Unlocked THEN [c \in DOMAIN l \ {col} |-> l[c]]
    ELSE map_insert(l, col, st)

\* RwLock::try_read succeeds unless a writer holds the lock
RwLock_try_read(st) == ~st.writer

\* mutant: the write lock is given while readers hold the lock
RwLock_try_write_over_readers(st) == ~st.writer

\* RwLock::try_write succeeds when nobody holds the lock
RwLock_try_write(st) == ~st.writer /\ st.readers = 0

\* taking the guard g = [col, mode]: whether it is given, and the locks afterwards
try_lock(l, g) ==
    LET st == lock_state(l, g.col) IN
    IF g.mode = "write"
    THEN IF RwLock_try_write(st)
         THEN [ok |-> TRUE, locks |-> set_lock(l, g.col, [st EXCEPT !.writer = TRUE])]
         ELSE [ok |-> FALSE, locks |-> l]
    ELSE IF RwLock_try_read(st)
         THEN [ok |-> TRUE, locks |-> set_lock(l, g.col, [st EXCEPT !.readers = @ + 1])]
         ELSE [ok |-> FALSE, locks |-> l]

\* dropping the guard g
unlock(l, g) ==
    LET st == lock_state(l, g.col) IN
    IF g.mode = "write"
    THEN set_lock(l, g.col, [st EXCEPT !.writer = FALSE])
    ELSE set_lock(l, g.col, [st EXCEPT !.readers = @ - 1])

\* the guards of reqs from position i on are taken one after the other; when one
\* is refused the fetch fails and the guards it has taken are dropped
RECURSIVE acquire_all(_, _, _, _)
acquire_all(l0, l, reqs, i) ==
    IF i > Len(reqs) THEN [ok |-> TRUE, locks |-> l]
    ELSE LET r == try_lock(l, reqs[i]) IN
         IF r.ok THEN acquire_all(l0, r.locks, reqs, i + 1)
         ELSE [ok |-> FALSE, locks |-> l0]

RECURSIVE release_all(_, _, _)
release_all(l, guards, i) ==
    IF i > Len(guards) THEN l
    ELSE release_all(unlock(l, guards[i]), guards, i + 1)

\* mutant: the guards are taken with read() and write(), which return once the
\* lock is available
lock_returns_when_available(st, mode) ==
    IF mode = "write" THEN RwLock_try_write(st) ELSE RwLock_try_read(st)

\* whether the lock call for a guard of the given mode returns at once when the
\* lock is in state st: try_read and try_write return in every state
lock_returns(st, mode) == TRUE

\* whether a fetch of the guards reqs from position i on returns: each lock call
\* it makes returns; after a refused guard it makes no further call
RECURSIVE fetch_returns(_, _, _)
fetch_returns(l, reqs, i) ==
    IF i > Len(reqs) THEN TRUE
    ELSE /\ lock_returns(lock_state(l, reqs[i].col), reqs[i].mode)
         /\ LET r == try_lock(l, reqs[i]) IN
            r.ok => fetch_returns(r.locks, reqs, i + 1)

\* the parameters of a query: one or two of &T and &mut T
QueryParameters ==
    UNION {SeqsOver([ty : TypeIds, mut : BOOLEAN], n) : n \in 1..2}

\* the guards a query over the parameters Q takes: for the archetypes from
\* position j of m on, for each parameter, the lock of its column
RECURSIVE query_guards(_, _, _)
query_guards(m, Q, j) ==
    IF j > Len(m) THEN <<>>
    ELSE [k \in 1..Len(Q) |->
             [col |-> <<m[j], Q[k].ty>>,
              mode |-> IF Q[k].mut THEN "write" ELSE "read"]]
         \o query_guards(m, Q, j + 1)

\* a fetch by holder h that needs the guards reqs: it succeeds when there is
\* something to fetch and every guard is given, and h then holds the guards
Fetch(h, reqs) ==
    /\ borrows[h] = <<>>
    /\ SharedAccess
    /\ fetch_returns(locks, reqs, 1)
    /\ LET r == acquire_all(locks, locks, reqs, 1) IN
       IF reqs # <<>> /\ r.ok
       THEN /\ locks' = r.locks
            /\ borrows' = [borrows EXCEPT ![h] = reqs]
       ELSE UNCHANGED <<locks, borrows>>
    /\ UNCHANGED <<archetypes, bundle_id_to_archetype, entities, free_entities,
                   last, issued, despawned, held, steps>>

\* world.query::<Q>()
Query ==
    \E h \in Borrowers, Q \in QueryParameters :
        Fetch(h, query_guards(
                     matching_archetypes(World, [k \in 1..Len(Q) |-> Q[k].ty]), Q, 1))

\* the guard of get_single (read) and get_single_mut (write): the lock of the
\* column of T in the archetype the value is taken from
single_guards(w, T, mode) ==
    LET m == single_archetypes(w, T) IN
    IF m = <<>> THEN <<>> ELSE <<[col |-> <<m[1], T>>, mode |-> mode]>>

\* world.get_single::<T>()
GetSingle ==
    \E h \in Borrowers, T \in TypeIds : Fetch(h, single_guards(World, T, "read"))

\* world.get_single_mut::<T>()
GetSingleMut ==
    \E h \in Borrowers, T \in TypeIds : Fetch(h, single_guards(World, T, "write"))

\* the Query, Single or SingleMut of holder h is dropped
DropBorrow ==
    \E h \in Borrowers :
        /\ borrows[h] # <<>>
        /\ locks' = release_all(locks, borrows[h], 1)
        /\ borrows' = [borrows EXCEPT ![h] = <<>>]
        /\ UNCHANGED <<archetypes, bundle_id_to_archetype, entities, free_entities,
                       last, issued, despawned, held, steps, inflight, Others>>

\* the bundles the World of the lock users is built from
LockBundles ==
    {b \in Bundles : \A i \in 1..Len(b) : b[i].val = 0 /\ (i > 1 => b[i - 1].ty < b[i].ty)}

SpawnL == SpawnOf(LockBundles)

NextLocks ==
    \/ SpawnL
    \/ Query
    \/ GetSingle
    \/ GetSingleMut
    \/ DropBorrow

SpecLocks == Init /\ [][NextLocks]_vars

\* The callers of the query facility use three component types, so that three
\* archetypes can hold one type; their bundles have one or two components,
\* declared in ascending TypeId order.
QueryTypeIds == {1, 2, 3}
QueryComponent == [ty : QueryTypeIds, val : Vals]

QueryBundles ==
    {b \in UNION {SeqsOver(QueryComponent, n) : n \in 1..2} :
        \A i, j \in 1..Len(b) : i < j => b[i].ty < b[j].ty}

\* the type tuples of the queries: one or two distinct types
Queries ==
    {q \in UNION {SeqsOver(QueryTypeIds, n) : n \in 1..2} :
        \A i, j \in 1..Len(q) : i # j => q[i] # q[j]}

SpawnQ == SpawnOf(QueryBundles)

AddComponentQ == AddComponentOf(QueryComponent)

RemoveComponentQ == RemoveComponentOf(QueryTypeIds)

NextQuery ==
    \/ SpawnQ
    \/ Despawn
    \/ AddComponentQ
    \/ RemoveComponentQ

SpecQuery == Init /\ [][NextQuery]_vars

\* The callers that use the registry at length: more calls, over one bundle and
\* one further component.
MaxRegistryOps == 6
MaxRegistrySpawns == 4

RegistryBundles == {<<[ty |-> 1, val |-> 0]>>}

SpawnR == SpawnWithin(RegistryBundles, MaxRegistryOps, MaxRegistrySpawns)

DespawnR == DespawnWithin(MaxRegistryOps)

AddComponentR == AddComponentWithin({[ty |-> 2, val |-> 0]}, MaxRegistryOps)

RemoveComponentR == RemoveComponentWithin({2}, MaxRegistryOps)

NextRegistry ==
    \/ SpawnR
    \/ DespawnR
    \/ AddComponentR
    \/ RemoveComponentR

SpecRegistry == Init /\ [][NextRegistry]_vars

----------------------------------------------------------------------------
\* A migration seen step by step: between the entry of add_component and its
\* return the World passes through states in which the registry, the columns
\* and the entity lists do not agree.

\* the states of the World during add_component(entity, t): after the registry
\* has the new location, after the columns have moved, and at the return; a
\* call that does not migrate has the one state it returns with
add_component_steps(w, entity, t) ==
    LET r == add_component(w, entity, t) IN
    IF r.res # "Ok" THEN <<r.world>>
    ELSE
    LET entity_info == Idx(w.entities, entity.index)
        cur == entity_info.location.archetype_index
        row == entity_info.location.index_in_archetype
        current_archetype == Idx(w.archetypes, cur)
        type_ids == type_ids_of(current_archetype)
        bs == binary_search(type_ids, t.ty)
    IN
    IF bs.found THEN <<r.world>>
    ELSE
    LET insert_index == bs.index
        bundle_id == calculate_bundle_id(VecInsert(type_ids, insert_index, t.ty))
        found == bundle_id \in DOMAIN w.bundle_id_to_archetype
        new_archetype_index ==
            IF found THEN w.bundle_id_to_archetype[bundle_id] ELSE Len(w.archetypes)
        archetype ==
            [entities |-> <<>>,
             components |->
                 VecInsert([i \in 1..Len(current_archetype.components) |->
                               new_same_type(current_archetype.components[i])],
                           insert_index, ComponentStore_new(t.ty))]
        w1 == IF found THEN w
              ELSE [w EXCEPT
                      !.bundle_id_to_archetype = map_insert(@, bundle_id, new_archetype_index),
                      !.archetypes = Append(@, archetype)]
        pair0 == index_twice(w1.archetypes, cur, new_archetype_index)
        ents1 == fix_moved_location(w1.entities, pair0.old, entity_info.location)
        ents2 == set_new_location(ents1, entity, new_archetype_index, pair0.new)
        pair1 == migrate_range(pair0, 0, insert_index, row, 0)
        pair2 == [pair1 EXCEPT !.new = push(@, insert_index, t)]
        pair3 == migrate_range(pair2, insert_index, Len(pair2.old.components), row, 1)
        registry_done == [w1 EXCEPT !.entities = ents2]
        columns_done ==
            [registry_done EXCEPT
                !.archetypes =
                    SetIdx(SetIdx(@, cur, pair3.old), new_archetype_index, pair3.new)]
    IN <<registry_done, columns_done, r.world>>

\* the component values of the callers that share the World
SharedComponent == {t \in Component : t.val = 0}

\* caller h enters world.add_component(entity, t): it takes the World by &mut
AddComponentEnter ==
    \E h \in Borrowers, entity \in Handles, t \in SharedComponent :
        /\ steps < MaxOps
        /\ add_component(World, entity, t).res # "Panic"
        /\ LET r == add_component(World, entity, t)
               ws == add_component_steps(World, entity, t)
               call == Call("add_component", entity, <<>>, t, r)
               after == IF r.res = "Ok"
                        THEN [held EXCEPT ![entity.index] =
                                 {c \in @ : c.ty # t.ty} \cup {t}]
                        ELSE held
           IN inflight' = [inflight EXCEPT ![h] =
                  [i \in 1..Len(ws) |-> [world |-> ws[i], call |-> call, held |-> after]]]
        /\ NoBorrowAlive
        /\ UNCHANGED <<archetypes, bundle_id_to_archetype, entities, free_entities,
                       last, issued, despawned, held, steps, locks, borrows, Others>>

\* the call of caller h goes one step on; with the last step it returns
AddComponentStep ==
    \E h \in Borrowers :
        /\ inflight[h] # <<>>
        /\ SetWorld(Head(inflight[h]).world)
        /\ inflight' = [inflight EXCEPT ![h] = Tail(@)]
        /\ IF Len(inflight[h]) = 1
           THEN Record(Head(inflight[h]).call) /\ held' = Head(inflight[h]).held
           ELSE UNCHANGED <<last, steps, held>>
        /\ UNCHANGED <<issued, despawned, locks, borrows, Others>>

NextShared ==
    \/ SpawnL
    \/ AddComponentEnter
    \/ AddComponentStep
    \/ Query
    \/ GetSingle
    \/ GetSingleMut
    \/ DropBorrow

SpecShared == Init /\ [][NextShared]_vars

----------------------------------------------------------------------------
\* The threads that call the Logger. A statement that locks a mutex, uses the
\* guard and drops it at its end is one step, taken when no other thread holds
\* the mutex; log_message_to_file keeps the guard of log_writer from line 77 to
\* the end of the if let, over the write and the calls of lines 81 to 83.

\* the Logger changes to lg, the World and the iterators stay as they are
SetLogger(lg) ==
    /\ logger' = lg
    /\ UNCHANGED <<archetypes, bundle_id_to_archetype, entities, free_entities,
                   last, issued, despawned, held, steps, locks, borrows, inflight,
                   chain>>

Goto(lg, t, p) == [lg EXCEPT !.pc[t] = p]

\* a thread that panics: the guards it holds are dropped and poison their mutex
panic(lg, t) ==
    [lg EXCEPT !.pc[t] = "panicked",
               !.owner = [m \in Mutexes |-> IF @[m] = t THEN 0 ELSE @[m]],
               !.poisoned = [m \in Mutexes |-> @[m] \/ lg.owner[m] = t]]

\* Logger::debug, info, warn, error, fatal: get_severity, then log_message when
\* the level of the method is not below the severity
log_method ==
    \E t \in Threads, level \in MethodLevels :
        /\ logger.pc[t] = "idle"
        /\ Mutex_lock(logger, "severity", t) = "guard"
        /\ SetLogger(IF logger.severity <= level
                     THEN Goto(logger, t, "has_log_writer")
                     ELSE logger)

\* Logger::set_severity
set_severity ==
    \E t \in Threads, severity \in Severities :
        /\ logger.pc[t] = "idle"
        /\ Mutex_lock(logger, "severity", t) = "guard"
        /\ SetLogger([logger EXCEPT !.severity = severity])

\* Logger::has_log_writer, called by set_log_writer_if_not_set
has_log_writer ==
    \E t \in Threads :
        /\ logger.pc[t] = "has_log_writer"
        /\ Mutex_lock(logger, "log_writer", t) \in {"guard", "poisoned"}
        /\ SetLogger(IF Mutex_lock(logger, "log_writer", t) = "guard" /\ logger.log_writer
                     THEN Goto(logger, t, "log_message_to_file")
                     ELSE Goto(logger, t, "get_log_path"))

\* Logger::get_log_path, called by set_log_writer_if_not_set
get_log_path ==
    \E t \in Threads :
        /\ logger.pc[t] = "get_log_path"
        /\ Mutex_lock(logger, "log_path", t) \in {"guard", "poisoned"}
        /\ SetLogger(IF Mutex_lock(logger, "log_path", t) = "poisoned"
                     THEN panic(logger, t)
                     ELSE IF logger.log_path
                     THEN Goto(logger, t, "open_log_file")
                     ELSE Goto(logger, t, "log_message_to_file"))

\* Logger::open_log_file, called by set_log_writer_if_not_set: File::create
\* succeeds or fails
open_log_file ==
    \E t \in Threads, created \in BOOLEAN :
        /\ logger.pc[t] = "open_log_file"
        /\ SetLogger(IF created
                     THEN Goto(logger, t, "set_log_writer")
                     ELSE Goto(logger, t, "remove_log_path"))

\* Logger::set_log_writer
set_log_writer ==
    \E t \in Threads :
        /\ logger.pc[t] = "set_log_writer"
        /\ Mutex_lock(logger, "log_writer", t) \in {"guard", "poisoned"}
        /\ SetLogger(IF Mutex_lock(logger, "log_writer", t) = "poisoned"
                     THEN panic(logger, t)
                     ELSE Goto([logger EXCEPT !.log_writer = TRUE], t,
                               "log_message_to_file"))

\* Logger::remove_log_path, its first statement; remove_log_writer follows
remove_log_path ==
    \E t \in Threads :
        /\ logger.pc[t] = "remove_log_path"
        /\ Mutex_lock(logger, "log_path", t) \in {"guard", "poisoned"}
        /\ SetLogger(IF Mutex_lock(logger, "log_path", t) = "poisoned"
                     THEN panic(logger, t)
                     ELSE Goto([logger EXCEPT !.log_path = FALSE], t,
                               "remove_log_writer in remove_log_path"))

\* where the calls of remove_log_writer are, and where each returns to
remove_log_writer_calls ==
    {"remove_log_writer in log_message_to_file",
     "remove_log_writer in remove_log_path",
     "remove_log_writer in set_log_path"}

remove_log_writer_return(p) ==
    IF p = "remove_log_writer in set_log_path" THEN "set_log_path"
    ELSE IF p = "remove_log_writer in remove_log_path" THEN "log_message_to_file"
    ELSE "remove_log_path"

\* what Mutex::lock does in a thread that holds the mutex: std leaves it open
\* between a deadlock and a panic, it does not return
RelockOutcomes == {"deadlocked", "panicked"}

\* Logger::remove_log_writer
remove_log_writer ==
    \E t \in Threads, outcome \in RelockOutcomes :
        /\ logger.pc[t] \in remove_log_writer_calls
        /\ Mutex_lock(logger, "log_writer", t) # "wait"
        /\ SetLogger(
               IF Mutex_lock(logger, "log_writer", t) = "relock"
               THEN IF outcome = "panicked" THEN panic(logger, t)
                    ELSE Goto(logger, t, "deadlocked")
               ELSE IF Mutex_lock(logger, "log_writer", t) = "poisoned"
               THEN panic(logger, t)
               ELSE Goto([logger EXCEPT !.log_writer = FALSE], t,
                         remove_log_writer_return(logger.pc[t])))

\* Logger::log_message_to_file from line 77: the guard of log_writer is taken;
\* without a writer, or with a poisoned mutex, the call returns
log_message_to_file ==
    \E t \in Threads :
        /\ logger.pc[t] = "log_message_to_file"
        /\ Mutex_lock(logger, "log_writer", t) \in {"guard", "poisoned"}
        /\ SetLogger(IF Mutex_lock(logger, "log_writer", t) = "guard" /\ logger.log_writer
                     THEN Goto([logger EXCEPT !.owner["log_writer"] = t], t, "write")
                     ELSE Goto(logger, t, "idle"))

\* the write of line 80, with the guard held: it succeeds and the call returns,
\* dropping the guard, or it fails and line 81 is next
write ==
    \E t \in Threads, written \in BOOLEAN :
        /\ logger.pc[t] = "write"
        /\ SetLogger(IF written
                     THEN Goto([logger EXCEPT !.owner["log_writer"] = 0], t, "idle")
                     ELSE Goto(logger, t, "remove_log_writer in log_message_to_file"))

\* Logger::set_log_path is called: remove_log_writer is its first statement
set_log_path_call ==
    \E t \in Threads :
        /\ logger.pc[t] = "idle"
        /\ SetLogger(Goto(logger, t, "remove_log_writer in set_log_path"))

\* Logger::set_log_path after remove_log_writer: the path is refused, or stored
set_log_path ==
    \E t \in Threads, is_file \in BOOLEAN :
        /\ logger.pc[t] = "set_log_path"
        /\ Mutex_lock(logger, "log_path", t) \in {"guard", "poisoned"}
        /\ SetLogger(IF ~is_file THEN Goto(logger, t, "idle")
                     ELSE IF Mutex_lock(logger, "log_path", t) = "poisoned"
                     THEN panic(logger, t)
                     ELSE Goto([logger EXCEPT !.log_path = TRUE], t, "idle"))

NextLogger ==
    \/ log_method
    \/ set_severity
    \/ has_log_writer
    \/ get_log_path
    \/ open_log_file
    \/ set_log_writer
    \/ remove_log_path
    \/ remove_log_writer
    \/ log_message_to_file
    \/ write
    \/ set_log_path_call
    \/ set_log_path

SpecLogger == Init /\ [][NextLogger]_vars

----------------------------------------------------------------------------
\* The users of ChainedIterator: ChainedIterator::new on a Vec of iterators,
\* then next() until it returns None.

\* the longest Vec of iterators and the most items of one iterator
MaxIterators == 3
MaxItems == 2

\* the Vecs of iterators given to new: iterator i yields the items <<i, 1>>,
\* <<i, 2>>, ..., none when it is empty
IteratorLists ==
    UNION {{[i \in 1..n |-> [k \in 1..lens[i] |-> <<i, k>>]] :
               lens \in [1..n -> 0..MaxItems]} : n \in 0..MaxIterators}

SetChain(c) ==
    /\ chain' = c
    /\ UNCHANGED <<archetypes, bundle_id_to_archetype, entities, free_entities,
                   last, issued, despawned, held, steps, locks, borrows, inflight,
                   logger>>

\* ChainedIterator::new(iterators)
ChainNew ==
    \E iterators \in IteratorLists :
        /\ chain.state = "none"
        /\ SetChain([given |-> iterators, ci |-> ChainedIterator_new(iterators),
                     yielded |-> <<>>, state |-> "driven"])

\* one call of next(): an item, or None, which ends the loop
ChainNext ==
    /\ chain.state = "driven"
    /\ LET r == ChainedIterator_next(chain.ci) IN
       SetChain(IF r.item = <<>>
                THEN [chain EXCEPT !.ci = r.ci, !.state = "ended"]
                ELSE [chain EXCEPT !.ci = r.ci, !.yielded = Append(@, r.item[1])])

NextChain ==
    \/ ChainNew
    \/ ChainNext

SpecChain == Init /\ [][NextChain]_vars

----------------------------------------------------------------------------
\* Properties

\* every call that takes a handle returns res for entity
AllCallsFail(w, entity, res) ==
    /\ despawn(w, entity).res = res
    /\ \A t \in Component : add_component(w, entity, t).res = res
    /\ \A T \in TypeIds : remove_component(w, entity, T).res = res
    /\ \A T \in TypeIds : get_component_mut(w, entity, T).res = res

\* the archetype a valid handle's slot names
archetype_of(w, entity) ==
    Idx(w.archetypes, Idx(w.entities, entity.index).location.archetype_index)

\* C1: right after spawn(b) returned e, get_component_mut::<T>(e) succeeds for
\* every type T of b and returns the value b gave for T.
C1_SpawnedComponentsReadable ==
    last.op = "spawn" =>
        \A i \in 1..Len(last.bundle) :
            LET g == get_component_mut(World, last.entity, last.bundle[i].ty) IN
            g.res = "Ok" /\ g.out = last.bundle[i]

\* C1 witness: a bundle of two types declared in descending TypeId order, with
\* different values, has been spawned onto a reused index, and both values are read
\* back.
C1_Witness ==
    /\ last.op = "spawn"
    /\ Len(last.bundle) = 2
    /\ last.bundle[1].ty > last.bundle[2].ty
    /\ last.bundle[1].val # last.bundle[2].val
    /\ last.entity.generation > 0
    /\ get_component_mut(World, last.entity, last.bundle[1].ty).out = last.bundle[1]
    /\ get_component_mut(World, last.entity, last.bundle[2].ty).out = last.bundle[2]

\* C2: a handle that despawn has accepted is refused with NoSuchEntity by every
\* later despawn, add_component, remove_component and get_component_mut.
C2_DespawnedHandleRefused ==
    \A entity \in despawned : AllCallsFail(World, entity, "NoSuchEntity")

\* C2 witness: a despawned handle whose index has been given to a later spawn that
\* is alive, and the old handle is refused.
C2_Witness ==
    \E entity \in despawned :
        /\ \E e2 \in Live : e2.index = entity.index
        /\ AllCallsFail(World, entity, "NoSuchEntity")

\* C3: for a live entity, add_component::<T>(e, v) then remove_component::<T>(e)
\* returns v and leaves the other components of e as they were before the add.
C3_AddRemoveRoundTrip ==
    \A entity \in Live :
        LET before == components_of(World, entity) IN
        \A t \in Component :
            LET a == add_component(World, entity, t)
                r == remove_component(a.world, entity, t.ty)
            IN /\ a.res = "Ok"
               /\ r.res = "Ok"
               /\ r.out = t
               /\ components_of(r.world, entity) = {c \in before : c.ty # t.ty}

\* C3 witness: a live entity that has a component and shares its archetype with
\* another entity, a type it lacks whose destination archetype holds a third
\* entity, and the round trip gives the value back.
C3_Witness ==
    \E entity \in Live, t \in Component :
        LET a == add_component(World, entity, t)
            r == remove_component(a.world, entity, t.ty)
            src == archetype_of(World, entity)
            dst == archetype_of(a.world, entity)
        IN /\ components_of(World, entity) # {}
           /\ \A c \in components_of(World, entity) : c.ty # t.ty
           /\ Len(src.entities) >= 2
           /\ Len(dst.entities) >= 2
           /\ r.out = t
           /\ components_of(r.world, entity) = components_of(World, entity)

\* C4: no two archetypes of the World have the same set of component types.
C4_NoDuplicateArchetype ==
    \A i, j \in 1..Len(archetypes) :
        i # j =>
            {archetypes[i].components[c].type_id : c \in 1..Len(archetypes[i].components)}
            # {archetypes[j].components[c].type_id : c \in 1..Len(archetypes[j].components)}

\* C4 witness: a two-type bundle declared in descending order was spawned into an
\* archetype that holds an earlier entity, while another entity reached the same
\* archetype by add_component or by a bundle declared the other way round.
C4_Witness ==
    /\ last.op = "spawn"
    /\ Len(last.bundle) = 2
    /\ last.bundle[1].ty > last.bundle[2].ty
    /\ Len(archetype_of(World, last.entity).entities) >= 2
    /\ Len(archetypes) >= 2

\* the handle of the entity in the last row of entity's archetype, when entity is
\* valid and sits in another row of it; NoEntity otherwise
last_row_entity(w, entity) ==
    IF slot_in_range(w, entity)
       /\ generation_matches(Idx(w.entities, entity.index), entity)
    THEN LET loc == Idx(w.entities, entity.index).location
             ents == Idx(w.archetypes, loc.archetype_index).entities
             m == ents[Len(ents)]
         IN IF loc.index_in_archetype < Len(ents) - 1
            THEN [index |-> m, generation |-> Idx(w.entities, m).generation]
            ELSE NoEntity
    ELSE NoEntity

\* the results of the calls by which entity leaves its archetype: despawn,
\* add_component of a type it lacks, remove_component of a type it has
Leaving(w, entity) ==
    LET types == {c.ty : c \in components_of(w, entity)} IN
    {despawn(w, entity)}
    \cup {add_component(w, entity, t) : t \in {c \in Component : c.ty \notin types}}
    \cup {remove_component(w, entity, T) : T \in types}

\* C5: when an entity that is not in the last row of its archetype leaves it, the
\* entity that was in the last row is located at the vacated row and its handle
\* still reads its own component values.
C5_DisplacedEntityReachable ==
    \A entity \in Live :
        LET m == last_row_entity(World, entity) IN
        m # NoEntity =>
            \A r \in Leaving(World, entity) :
                /\ r.res = "Ok"
                /\ Idx(r.world.entities, m.index).location =
                       Idx(entities, entity.index).location
                /\ \A T \in TypeIds : get_component_mut(r.world, m, T).res # "NoSuchEntity"
                /\ components_of(r.world, m) = held[m.index]

\* C5 witness: an entity in the first row of an archetype whose last row holds
\* another entity with other values; it can leave by despawn, by add_component and
\* by remove_component, and after its despawn the other entity reads its own values.
C5_Witness ==
    \E entity \in Live :
        LET m == last_row_entity(World, entity) IN
        /\ m # NoEntity
        /\ held[m.index] # {}
        /\ held[m.index] # held[entity.index]
        /\ Cardinality(Leaving(World, entity)) >= 3
        /\ components_of(despawn(World, entity).world, m) = held[m.index]
        /\ Idx(despawn(World, entity).world.entities, m.index).location.index_in_archetype = 0

\* the rows of all archetypes, as <<archetype, row>> positions counted from 1
Rows ==
    UNION {{<<a, r>> : r \in 1..Len(archetypes[a].entities)} : a \in 1..Len(archetypes)}

\* C6: every live entity index is in exactly one row of one archetype, and the
\* location of its registry slot is that row.
C6_OneRowPerLiveEntity ==
    \A entity \in Live :
        /\ Cardinality({p \in Rows : archetypes[p[1]].entities[p[2]] = entity.index}) = 1
        /\ LET loc == Idx(entities, entity.index).location IN
           /\ <<loc.archetype_index + 1, loc.index_in_archetype + 1>> \in Rows
           /\ Idx(Idx(archetypes, loc.archetype_index).entities, loc.index_in_archetype)
                  = entity.index

\* C6 witness: right after a migration out of an archetype that another live
\* entity stays in, the two are in different archetypes.
C6_Witness ==
    /\ last.op \in {"add_component", "remove_component"}
    /\ \E e2 \in Live :
           /\ e2 # last.entity
           /\ Len(archetype_of(World, e2).components) >= 1
           /\ Idx(entities, e2.index).location.archetype_index
                  # Idx(entities, last.entity.index).location.archetype_index

\* C7: in every archetype each column is as long as the entity list, and row r of
\* every column holds the value of the column's type that belongs to the entity in
\* row r of the entity list.
C7_ColumnsInLockstep ==
    \A a \in 1..Len(archetypes) :
        /\ \A c \in 1..Len(archetypes[a].components) :
               Len(archetypes[a].components[c].data) = Len(archetypes[a].entities)
        /\ \A r \in 1..Len(archetypes[a].entities) :
               /\ archetypes[a].entities[r] \in DOMAIN held
               /\ {archetypes[a].components[c].data[r] :
                      c \in 1..Len(archetypes[a].components)}
                      = held[archetypes[a].entities[r]]
               /\ \A c \in 1..Len(archetypes[a].components) :
                      archetypes[a].components[c].data[r].ty
                          = archetypes[a].components[c].type_id

\* C7 witness: an archetype of two columns and two rows with different values,
\* right after a row was taken out of it or put into it by a migration or despawn.
C7_Witness ==
    /\ last.op \in {"despawn", "add_component", "remove_component"}
    /\ \E a \in 1..Len(archetypes) :
           /\ Len(archetypes[a].components) = 2
           /\ Len(archetypes[a].entities) >= 2
           /\ archetypes[a].components[1].data[1] # archetypes[a].components[1].data[2]

\* C8: the type identifiers of an archetype's stores are strictly ascending.
C8_TypeIdsAscending ==
    \A a \in 1..Len(archetypes) :
        \A c \in 1..(Len(archetypes[a].components) - 1) :
            archetypes[a].components[c].type_id < archetypes[a].components[c + 1].type_id

\* C8 witness: add_component of the smaller type has just created the two-type
\* archetype (it is the newest archetype and holds only that entity), and a
\* remove_component or another path has created further archetypes.
C8_Witness ==
    /\ last.op = "add_component"
    /\ last.t.ty = 1
    /\ Idx(entities, last.entity.index).location.archetype_index = Len(archetypes) - 1
    /\ Len(archetype_of(World, last.entity).components) = 2
    /\ Len(archetype_of(World, last.entity).entities) = 1

\* C9: a call that returns NoSuchEntity leaves the World as it was.
C9_RefusedCallChangesNothing ==
    \A entity \in Handles :
        /\ LET r == despawn(World, entity) IN
           r.res = "NoSuchEntity" => r.world = World
        /\ \A t \in Component :
               LET r == add_component(World, entity, t) IN
               r.res = "NoSuchEntity" => r.world = World
        /\ \A T \in TypeIds :
               /\ LET r == remove_component(World, entity, T) IN
                  r.res = "NoSuchEntity" => r.world = World
               /\ LET r == get_component_mut(World, entity, T) IN
                  r.res = "NoSuchEntity" => r.world = World

\* C9 witness: a stale handle is refused by despawn while its index is in the free
\* list and another entity is alive, and the World after the call is the World.
C9_Witness ==
    \E entity \in despawned :
        /\ free_entities # <<>>
        /\ free_entities[Len(free_entities)] = entity.index
        /\ Live # {}
        /\ despawn(World, entity).res = "NoSuchEntity"
        /\ despawn(World, entity).world = World

\* C10 (the claim as stated): no call aborts, whatever handle it is given, and a
\* handle whose index has no registry slot is refused with NoSuchEntity.
C10_NoCallAborts ==
    \A entity \in Handles :
        /\ despawn(World, entity).res # "Panic"
        /\ \A t \in Component : add_component(World, entity, t).res # "Panic"
        /\ \A T \in TypeIds :
               /\ remove_component(World, entity, T).res # "Panic"
               /\ get_component_mut(World, entity, T).res # "Panic"
        /\ ~slot_in_range(World, entity) => AllCallsFail(World, entity, "NoSuchEntity")

\* a call aborts only when the handle's index has no registry slot
PanicOnlyWithoutSlot ==
    \A entity \in Handles :
        slot_in_range(World, entity) =>
            /\ despawn(World, entity).res # "Panic"
            /\ \A t \in Component : add_component(World, entity, t).res # "Panic"
            /\ \A T \in TypeIds :
                   /\ remove_component(World, entity, T).res # "Panic"
                   /\ get_component_mut(World, entity, T).res # "Panic"

\* the types of the components the owner of a live entity has given it
held_types(entity) == {c.ty : c \in held[entity.index]}

\* C11: for a live entity that does not have type T, remove_component::<T> and
\* get_component_mut::<T> fail with EntityMissingComponent; for a stale handle they
\* fail with NoSuchEntity whatever T is.
C11_MissingComponentOrNoSuchEntity ==
    /\ \A entity \in Live : \A T \in TypeIds \ held_types(entity) :
           /\ remove_component(World, entity, T).res = "EntityMissingComponent"
           /\ get_component_mut(World, entity, T).res = "EntityMissingComponent"
    /\ \A entity \in despawned, T \in TypeIds :
           /\ remove_component(World, entity, T).res = "NoSuchEntity"
           /\ get_component_mut(World, entity, T).res = "NoSuchEntity"

\* C11 witness: a live entity that has one type and lacks another, on an index
\* whose earlier handle is stale, that stale handle having had the type asked for.
C11_Witness ==
    \E entity \in Live, stale \in despawned, T \in TypeIds :
        /\ stale.index = entity.index
        /\ held_types(entity) # {}
        /\ T \notin held_types(entity)
        /\ get_component_mut(World, entity, T).res = "EntityMissingComponent"
        /\ remove_component(World, entity, T).res = "EntityMissingComponent"
        /\ \A U \in TypeIds : get_component_mut(World, stale, U).res = "NoSuchEntity"

\* C12 (the claim as stated): an EntityMissingComponent error of get_component_mut
\* or remove_component carries the index of the entity the call was given.
C12_ErrorCarriesEntityIndex ==
    \A entity \in Live, T \in TypeIds :
        /\ LET r == get_component_mut(World, entity, T) IN
           r.res = "EntityMissingComponent" => r.err_id = entity.index
        /\ LET r == remove_component(World, entity, T) IN
           r.res = "EntityMissingComponent" => r.err_id = entity.index

\* the error of remove_component carries the entity index; the error of
\* get_component_mut carries the entity's row in its archetype
ErrorCarriesIndexOrRow ==
    \A entity \in Live, T \in TypeIds :
        /\ LET r == get_component_mut(World, entity, T) IN
           r.res = "EntityMissingComponent" =>
               r.err_id = Idx(entities, entity.index).location.index_in_archetype
        /\ LET r == remove_component(World, entity, T) IN
           r.res = "EntityMissingComponent" => r.err_id = entity.index

\* the registry location of a valid handle's entity in w
location_of(w, entity) == Idx(w.entities, entity.index).location

\* the set of types of an archetype's stores
type_set(a) == {a.components[c].type_id : c \in 1..Len(a.components)}

\* the values in row `row` (from 0) of the columns of archetype a
row_values(a, row) == {Idx(a.components[c].data, row) : c \in 1..Len(a.components)}

\* every column of a is as long as its entity list and the list has no entry for
\* entity index i
no_row_for(a, i) ==
    /\ \A r \in 1..Len(a.entities) : a.entities[r] # i
    /\ \A c \in 1..Len(a.components) : Len(a.components[c].data) = Len(a.entities)

\* C13: add_component::<T>(e, v) on a live entity that has T overwrites e's T
\* value with v and nothing else: registry, archetype count, bundle-id map, free
\* list, entity lists and all other component values are as before.
C13_AddExistingOverwritesInPlace ==
    \A entity \in Live : \A t \in {c \in Component : c.ty \in held_types(entity)} :
        LET r == add_component(World, entity, t)
            loc == location_of(World, entity)
        IN /\ r.res = "Ok"
           /\ r.world.entities = entities
           /\ r.world.bundle_id_to_archetype = bundle_id_to_archetype
           /\ r.world.free_entities = free_entities
           /\ Len(r.world.archetypes) = Len(archetypes)
           /\ \A a \in 1..Len(archetypes) :
                  /\ r.world.archetypes[a].entities = archetypes[a].entities
                  /\ Len(r.world.archetypes[a].components) = Len(archetypes[a].components)
                  /\ \A c \in 1..Len(archetypes[a].components) :
                         /\ r.world.archetypes[a].components[c].type_id
                                = archetypes[a].components[c].type_id
                         /\ Len(r.world.archetypes[a].components[c].data)
                                = Len(archetypes[a].components[c].data)
                         /\ \A i \in 1..Len(archetypes[a].components[c].data) :
                                r.world.archetypes[a].components[c].data[i] =
                                    IF /\ a = loc.archetype_index + 1
                                       /\ archetypes[a].components[c].type_id = t.ty
                                       /\ i = loc.index_in_archetype + 1
                                    THEN t
                                    ELSE archetypes[a].components[c].data[i]

\* C13 witness: add_component has just overwritten a value of an entity in the
\* second row of the only archetype, which has two columns and two rows, and a
\* further overwrite with another value changes that entity's value only.
C13_Witness ==
    /\ last.op = "add_component"
    /\ Len(archetypes) = 1
    /\ Len(archetypes[1].components) = 2
    /\ Len(archetypes[1].entities) = 2
    /\ location_of(World, last.entity).index_in_archetype = 1
    /\ last.t \in held[last.entity.index]
    /\ last.t \in components_of(World, last.entity)
    /\ \E t \in Component :
           /\ t.ty = last.t.ty
           /\ t.val # last.t.val
           /\ t \in components_of(add_component(World, last.entity, t).world, last.entity)

\* C14: add_component::<T>(e, v) on a live entity that lacks T leaves e in the
\* last row of the archetype whose type set is e's old type set plus T, with v
\* under T and e's other components under their own types with their values, and
\* no row for e in the old archetype.
C14_AddNewMigrates ==
    \A entity \in Live : \A t \in {c \in Component : c.ty \notin held_types(entity)} :
        LET r == add_component(World, entity, t)
            from == location_of(World, entity)
            to == location_of(r.world, entity)
            dest == Idx(r.world.archetypes, to.archetype_index)
        IN /\ r.res = "Ok"
           /\ to.archetype_index # from.archetype_index
           /\ type_set(dest) = held_types(entity) \cup {t.ty}
           /\ Len(dest.components) = Cardinality(type_set(dest))
           /\ to.index_in_archetype = Len(dest.entities) - 1
           /\ Idx(dest.entities, to.index_in_archetype) = entity.index
           /\ \A c \in 1..Len(dest.components) :
                  /\ Len(dest.components[c].data) = Len(dest.entities)
                  /\ Idx(dest.components[c].data, to.index_in_archetype).ty
                         = dest.components[c].type_id
           /\ row_values(dest, to.index_in_archetype) = held[entity.index] \cup {t}
           /\ no_row_for(Idx(r.world.archetypes, from.archetype_index), entity.index)

\* C14 witness: add_component of the smaller type has just migrated an entity
\* that held the larger type with another value into a two-column archetype.
C14_Witness ==
    /\ last.op = "add_component"
    /\ last.t.ty = 1
    /\ held[last.entity.index] = {last.t, [ty |-> 2, val |-> 1 - last.t.val]}
    /\ row_values(archetype_of(World, last.entity),
                  location_of(World, last.entity).index_in_archetype)
           = held[last.entity.index]
    /\ \E a \in 1..Len(archetypes) :
           /\ type_set(archetypes[a]) = {2}
           /\ no_row_for(archetypes[a], last.entity.index)

\* C15: remove_component::<T>(e) on a live entity that has T returns e's T value
\* and leaves e in the archetype whose type set is e's old type set minus T (the
\* empty set when T was the only one), with e's other components under their own
\* types with their values, and no row for e in any column of the old archetype.
C15_RemoveMigrates ==
    \A entity \in Live : \A T \in held_types(entity) :
        LET r == remove_component(World, entity, T)
            from == location_of(World, entity)
            to == location_of(r.world, entity)
            dest == Idx(r.world.archetypes, to.archetype_index)
        IN /\ r.res = "Ok"
           /\ r.out \in held[entity.index]
           /\ r.out.ty = T
           /\ to.archetype_index # from.archetype_index
           /\ type_set(dest) = held_types(entity) \ {T}
           /\ Len(dest.components) = Cardinality(type_set(dest))
           /\ to.index_in_archetype = Len(dest.entities) - 1
           /\ Idx(dest.entities, to.index_in_archetype) = entity.index
           /\ \A c \in 1..Len(dest.components) :
                  /\ Len(dest.components[c].data) = Len(dest.entities)
                  /\ Idx(dest.components[c].data, to.index_in_archetype).ty
                         = dest.components[c].type_id
           /\ row_values(dest, to.index_in_archetype) = held[entity.index] \ {r.out}
           /\ no_row_for(Idx(r.world.archetypes, from.archetype_index), entity.index)

\* C15 witness: remove_component has just taken the smaller type from an entity
\* of two types, which now sits in the one-column archetype of the larger type,
\* and removing that last component would leave it in the archetype of no types.
C15_Witness ==
    /\ last.op = "remove_component"
    /\ last.t.ty = 1
    /\ last.out.ty = 1
    /\ held_types(last.entity) = {2}
    /\ type_set(archetype_of(World, last.entity)) = {2}
    /\ row_values(archetype_of(World, last.entity),
                  location_of(World, last.entity).index_in_archetype)
           = held[last.entity.index]
    /\ LET r == remove_component(World, last.entity, 2) IN
       /\ r.out \in held[last.entity.index]
       /\ type_set(archetype_of(r.world, last.entity)) = {}

\* The scenario of two entities: from World::new, e1 = spawn((Position{0,0},
\* Health{100})), e2 = spawn((Position{1,1},)), add_component(e2, Health{50}).
\* P and H are the TypeIds of Position and Health, either may be the smaller;
\* Position{0,0} and Position{1,1} are the values 0 and 1 of P, Health{100} and
\* Health{50} the values 1 and 0 of H. e1 and e2 are the handles spawn returns.
e1 == [index |-> 0, generation |-> 0]
e2 == [index |-> 1, generation |-> 0]

\* the state right after the three calls of the scenario, and no other
ScenarioAddHealth(P, H) ==
    /\ P # H
    /\ steps = 3
    /\ last.op = "add_component"
    /\ last.entity = e2
    /\ last.t = [ty |-> H, val |-> 0]
    /\ issued = {e1, e2}
    /\ despawned = {}
    /\ DOMAIN held = {0, 1}
    /\ held[0] = {[ty |-> P, val |-> 0], [ty |-> H, val |-> 1]}
    /\ held[1] = {[ty |-> P, val |-> 1], [ty |-> H, val |-> 0]}
    /\ Len(archetypes) = 2
    /\ type_set(archetypes[1]) = {P, H}
    /\ type_set(archetypes[2]) = {P}

\* C16: in the scenario, add_component(e2, Health{50}) has put e2 in the archetype
\* of e1, and a query over (&Position, &Health) yields exactly the rows
\* (Position{0,0}, Health{100}) and (Position{1,1}, Health{50}), in that order.
C16_ScenarioQueryPositionHealth ==
    \A P, H \in TypeIds :
        ScenarioAddHealth(P, H) =>
            /\ location_of(World, e2).archetype_index
                   = location_of(World, e1).archetype_index
            /\ query(World, <<P, H>>) =
                   [res |-> "Ok",
                    rows |-> << <<[ty |-> P, val |-> 0], [ty |-> H, val |-> 1]>>,
                                <<[ty |-> P, val |-> 1], [ty |-> H, val |-> 0]>> >>]

\* C16 witness: the scenario has run and the query yields two rows.
C16_Witness ==
    \E P, H \in TypeIds :
        /\ ScenarioAddHealth(P, H)
        /\ Len(query(World, <<P, H>>).rows) = 2
        /\ Len(archetype_of(World, e1).entities) = 2

\* C17: in the scenario continued, remove_component::<Health>(e1) returns
\* Health{100} and a query over &Health then yields exactly Health{50}, e2's.
C17_ScenarioRemoveHealth ==
    \A P, H \in TypeIds :
        ScenarioAddHealth(P, H) =>
            LET r == remove_component(World, e1, H) IN
            /\ r.res = "Ok"
            /\ r.out = [ty |-> H, val |-> 1]
            /\ query(r.world, <<H>>) =
                   [res |-> "Ok", rows |-> << <<[ty |-> H, val |-> 0]>> >>]

\* C17 witness: the scenario has run, e1 is in the first row of the archetype it
\* shares with e2, and its Health is taken out.
C17_Witness ==
    \E P, H \in TypeIds :
        /\ ScenarioAddHealth(P, H)
        /\ location_of(World, e1).index_in_archetype = 0
        /\ remove_component(World, e1, H).out = [ty |-> H, val |-> 1]
        /\ Len(query(remove_component(World, e1, H).world, <<H>>).rows) = 1

\* the tuple a query over Q owes for entity index i: for each type of Q, the
\* value of that type the owner of i gave it
owed_tuple(i, Q) ==
    [k \in 1..Len(Q) |-> CHOOSE c \in held[i] : c.ty = Q[k]]

\* the tuples a query over Q owes: for the archetypes from position a (counted
\* from 1) on, in storage order, whose type set is a superset of Q, one tuple for
\* each row, in row order
RECURSIVE owed_rows(_, _, _)
owed_rows(w, Q, a) ==
    IF a > Len(w.archetypes) THEN <<>>
    ELSE (IF {Q[k] : k \in 1..Len(Q)} \subseteq type_set(w.archetypes[a])
          THEN [r \in 1..Len(w.archetypes[a].entities) |->
                   owed_tuple(w.archetypes[a].entities[r], Q)]
          ELSE <<>>)
         \o owed_rows(w, Q, a + 1)

\* C18 (the claim as stated): a query over Q, iterated to its first end, yields
\* one tuple for every row of every archetype whose type set is a superset of Q
\* and no other, archetypes in storage order and rows in row order, also when
\* matching archetypes are empty.
C18_QueryYieldsEveryRow ==
    \A Q \in Queries : query(World, Q).rows = owed_rows(World, Q, 1)

\* the rows a query yields up to its first end are the first rows it owes
QueryYieldsPrefix ==
    \A Q \in Queries :
        LET got == query(World, Q).rows
            owed == owed_rows(World, Q, 1)
        IN Len(got) <= Len(owed) /\ got = SubSeq(owed, 1, Len(got))

\* no archetype contains T, or no archetype that contains T has a row
no_row_of(w, T) ==
    \A a \in 1..Len(w.archetypes) :
        T \in type_set(w.archetypes[a]) => w.archetypes[a].entities = <<>>

guards_on(col, mode) ==
    {p \in UNION {{<<h, i>> : i \in 1..Len(borrows[h])} : h \in Borrowers} :
        borrows[p[1]][p[2]] = [col |-> col, mode |-> mode]}

\* the columns some guard is alive on
guarded_columns ==
    UNION {{borrows[h][i].col : i \in 1..Len(borrows[h])} : h \in Borrowers}

WorldConsistent ==
    /\ \A i \in 0..(Len(entities) - 1) :
           (\A f \in 1..Len(free_entities) : free_entities[f] # i) =>
               /\ Cardinality({p \in Rows : archetypes[p[1]].entities[p[2]] = i}) = 1
               /\ LET loc == Idx(entities, i).location IN
                  /\ <<loc.archetype_index + 1, loc.index_in_archetype + 1>> \in Rows
                  /\ Idx(Idx(archetypes, loc.archetype_index).entities,
                         loc.index_in_archetype) = i
    /\ \A a \in 1..Len(archetypes) :
           \A c \in 1..Len(archetypes[a].components) :
               Len(archetypes[a].components[c].data) = Len(archetypes[a].entities)

fetch_requests ==
    {single_guards(World, T, mode) : T \in TypeIds, mode \in {"read", "write"}}
        \cup {query_guards(matching_archetypes(World, [k \in 1..Len(Q) |-> Q[k].ty]), Q, 1) :
                 Q \in QueryParameters}

MapMatchesArchetypes ==
    /\ Cardinality(DOMAIN bundle_id_to_archetype) = Len(archetypes)
    /\ \A a \in 1..Len(archetypes) :
           LET types == type_ids_of(archetypes[a]) IN
           /\ \A i, j \in 1..Len(types) : i < j => types[i] < types[j]
           /\ calculate_bundle_id(types) \in DOMAIN bundle_id_to_archetype
           /\ bundle_id_to_archetype[calculate_bundle_id(types)] = a - 1
           /\ \A b \in 1..Len(archetypes) :
                  type_ids_of(archetypes[b]) = types => b = a

\* a call keeps every entry of the map as it is and every archetype at its
\* index with its type sequence
MapAndArchetypesKept ==
    /\ \A k \in DOMAIN bundle_id_to_archetype :
           /\ k \in DOMAIN bundle_id_to_archetype'
           /\ bundle_id_to_archetype'[k] = bundle_id_to_archetype[k]
    /\ Len(archetypes') >= Len(archetypes)
    /\ \A a \in 1..Len(archetypes) :
           type_ids_of(archetypes'[a]) = type_ids_of(archetypes[a])

\* C23: in every World the map from bundle ids to archetypes has exactly one
\* entry per archetype, from the id of the archetype's sorted type sequence to
\* its index, no two archetypes have the same type sequence, and no call
\* removes or re-points an entry or removes an archetype.
C23_MapMatchesArchetypes ==
    MapMatchesArchetypes /\ [][MapMatchesArchetypes' /\ MapAndArchetypesKept]_vars

\* C23 witness: a migration or a despawn has left an archetype without rows
\* beside another archetype; it is still there with its entry.
C23_Witness ==
    /\ last.op \in {"add_component", "remove_component", "despawn"}
    /\ Len(archetypes) >= 2
    /\ \E a \in 1..Len(archetypes) : archetypes[a].entities = <<>>
    /\ Cardinality(DOMAIN bundle_id_to_archetype) >= 2

\* the mutex a thread is about to lock, "" when it is about to lock none
wanted_mutex(t) ==
    IF logger.pc[t] \in remove_log_writer_calls
           \cup {"has_log_writer", "set_log_writer", "log_message_to_file"}
    THEN "log_writer"
    ELSE IF logger.pc[t] \in {"get_log_path", "remove_log_path", "set_log_path"}
    THEN "log_path"
    ELSE ""

\* a thread that will never get on: it locked a mutex it holds and the lock
\* call waits, or it wants a mutex held by such a thread
blocked_forever(t) ==
    \/ logger.pc[t] = "deadlocked"
    \/ /\ wanted_mutex(t) # ""
       /\ logger.owner[wanted_mutex(t)] # 0
       /\ logger.pc[logger.owner[wanted_mutex(t)]] = "deadlocked"

\* C24: no thread that has called a Logger method is ever blocked forever on
\* one of the Logger's mutexes, whatever the other threads do and whatever the
\* file operations return.
C24_LogCallAlwaysReturns == \A t \in Threads : ~blocked_forever(t)

\* the registry indices that are in a row of some archetype
indices_in_rows == {archetypes[p[1]].entities[p[2]] : p \in Rows}

\* free_entities has no index twice, has exactly the registry indices that are
\* in no row, and the registry has one slot per live entity and per free index
FreeListExact ==
    /\ \A i, j \in 1..Len(free_entities) : i # j => free_entities[i] # free_entities[j]
    /\ {free_entities[i] : i \in 1..Len(free_entities)}
           = {k \in 0..(Len(entities) - 1) : k \notin indices_in_rows}
    /\ Len(entities) = Cardinality(Live) + Len(free_entities)

\* a step that is a successful despawn(e) pushes e.index onto free_entities,
\* adds one to the generation of e's slot and leaves e.index in no row
DespawnFreesSlot ==
    (steps' = steps + 1 /\ last'.op = "despawn") =>
        /\ free_entities' = Append(free_entities, last'.entity.index)
        /\ Idx(entities', last'.entity.index).generation
               = Idx(entities, last'.entity.index).generation + 1
        /\ last'.entity.index \in indices_in_rows
        /\ last'.entity.index \notin indices_in_rows'
        /\ Cardinality(Rows') = Cardinality(Rows) - 1

\* C25: in every World free_entities holds, once each, exactly the registry
\* indices that are in no archetype's entity list, and the registry has as many
\* slots as there are live entities and free indices; a successful despawn(e)
\* adds e.index to free_entities, increments the generation of the slot and
\* removes e's row.
C25_FreeListExact == FreeListExact /\ [][FreeListExact' /\ DespawnFreesSlot]_vars

\* C25 witness: after a successful despawn two indices are free and a live
\* entity remains.
C25_Witness ==
    /\ last.op = "despawn"
    /\ Len(free_entities) >= 2
    /\ Live # {}

\* a step that is a call of spawn takes the index that was pushed onto
\* free_entities last, when there is one, and the handle it returns has a
\* generation above that of every handle issued for the index before; with no
\* free index it appends a slot and returns its index with generation 0
SpawnReusesLastFreed ==
    (steps' = steps + 1 /\ last'.op = "spawn") =>
        IF free_entities # <<>>
        THEN /\ last'.entity.index = free_entities[Len(free_entities)]
             /\ free_entities' = SubSeq(free_entities, 1, Len(free_entities) - 1)
             /\ Len(entities') = Len(entities)
             /\ \A h \in issued :
                    h.index = last'.entity.index =>
                        h.generation < last'.entity.generation
             /\ Idx(entities', last'.entity.index).generation = last'.entity.generation
        ELSE /\ last'.entity = [index |-> Len(entities), generation |-> 0]
             /\ Len(entities') = Len(entities) + 1
             /\ free_entities' = <<>>

\* the free list is a stack: the index pushed by a successful despawn is on top
DespawnPushesOnTop ==
    (steps' = steps + 1 /\ last'.op = "despawn") =>
        free_entities' = Append(free_entities, last'.entity.index)

\* C26: spawn takes the most recently despawned index whenever free_entities is
\* not empty and returns a handle with a generation greater than that of every
\* handle issued for that index before; it appends a registry slot, with
\* generation 0, only when free_entities is empty.
C26_SpawnReusesLastFreed == [][SpawnReusesLastFreed /\ DespawnPushesOnTop]_vars

\* C26 witness: spawn has just taken an index for the second time while another
\* index, despawned earlier, is still free.
C26_Witness ==
    /\ last.op = "spawn"
    /\ last.entity.generation >= 2
    /\ Len(free_entities) >= 1
    /\ \E h \in issued : h.index = last.entity.index /\ h.generation < last.entity.generation

\* the items of the iterators that were given to ChainedIterator::new
given_items ==
    UNION {{chain.given[i][k] : k \in 1..Len(chain.given[i])} :
              i \in 1..Len(chain.given)}

\* C27: when next() has returned None for the first time, every item of every
\* iterator given to new has been yielded exactly once, and no iterator of the
\* chain still has an item, wherever in the Vec the empty iterators are.
C27_ChainYieldsEveryItemOnce ==
    chain.state = "ended" =>
        /\ {chain.yielded[j] : j \in 1..Len(chain.yielded)} = given_items
        /\ Len(chain.yielded) = Cardinality(given_items)
        /\ \A i \in 1..Len(chain.ci.iterators) : chain.ci.iterators[i] = <<>>
        /\ \A i \in 1..Len(chain.ci.current_iter) : chain.ci.current_iter[i] = <<>>

\* what ChainedIterator does keep: the items it yields are items of the given
\* iterators, none twice
ChainYieldsNoItemTwice ==
    /\ \A j \in 1..Len(chain.yielded) : chain.yielded[j] \in given_items
    /\ \A i, j \in 1..Len(chain.yielded) : i # j => chain.yielded[i] # chain.yielded[j]

\* C28: the slot of every live entity has the generation of the entity's
\* handle, and get_component_mut on the handle does not fail with NoSuchEntity,
\* whatever calls were made on other entities since it was spawned.
C28_LiveHandleStaysValid ==
    \A entity \in Live :
        /\ slot_in_range(World, entity)
        /\ Idx(entities, entity.index).generation = entity.generation
        /\ \A T \in TypeIds :
               get_component_mut(World, entity, T).res \in {"Ok", "EntityMissingComponent"}

\* C28 witness: a live entity that was spawned into the second row or further
\* down is in the first row of the first archetype, right after a call on the
\* entity of index 0: it has been moved by a swap-remove.
C28_Witness ==
    /\ last.op \in {"despawn", "add_component"}
    /\ last.entity.index = 0
    /\ \E entity \in Live :
           /\ entity = [index |-> 1, generation |-> 0]
           /\ location_of(World, entity)
                  = [archetype_index |-> 0, index_in_archetype |-> 0]

\* the entities that are live before and after a step and are not the entity
\* the call of the step was about (for spawn, the entity it returned)
Bystanders == {entity \in Live \cap Live' : entity # last'.entity}

\* a call leaves to every other live entity its archetype and, read through
\* its handle, its values
OthersKeepTheirs ==
    (steps' = steps + 1) =>
        \A other \in Bystanders :
            /\ location_of(World', other).archetype_index
                   = location_of(World, other).archetype_index
            /\ type_set(archetype_of(World', other)) = type_set(archetype_of(World, other))
            /\ components_of(World', other) = components_of(World, other)
            /\ components_of(World', other) = held[other.index]

\* C29: spawn, despawn(e), add_component(e, ..) and remove_component(e) leave
\* every other live entity in its archetype, with the same type set and, read
\* through its handle, the same value of each of its components.
C29_OthersKeepTheirs == [][OthersKeepTheirs]_vars

\* C29 witness: a call has just changed or removed an entity that shared its
\* archetype with another live entity, which has a different value of a type
\* and was in a lower row.
C29_Witness ==
    /\ last.op \in {"despawn", "add_component", "remove_component"}
    /\ \E other \in Live :
           /\ other # last.entity
           /\ other.index > last.entity.index
           /\ location_of(World, other).index_in_archetype = 0
           /\ held[other.index] # {}

\* add_component(entity, t) for a type the entity does not have, and
\* remove_component::<T>(entity) for a type it has, leave the entity in an
\* archetype of another index than before; the two indices are positions of
\* archetypes, and index_twice on them returns the archetype at the first
\* index first and the one at the second index second
MigrationTarget(r, entity) ==
    LET from == location_of(World, entity).archetype_index
        to == location_of(r.world, entity).archetype_index
    IN /\ r.res = "Ok"
       /\ from # to
       /\ from >= 0 /\ from < Len(r.world.archetypes)
       /\ to >= 0 /\ to < Len(r.world.archetypes)
       /\ index_twice(r.world.archetypes, from, to)
              = [old |-> Idx(r.world.archetypes, from),
                 new |-> Idx(r.world.archetypes, to)]
       /\ type_set(Idx(r.world.archetypes, from)) = type_set(archetype_of(World, entity))

\* C30: in every add_component that migrates and every remove_component that
\* succeeds the destination archetype index differs from the current one, both
\* are positions of archetypes, and index_twice returns the source archetype
\* first and the destination second.
C30_MigrationBetweenTwoArchetypes ==
    \A entity \in Live :
        /\ \A t \in Component :
               t.ty \notin held_types(entity) =>
                   /\ MigrationTarget(add_component(World, entity, t), entity)
                   /\ type_set(archetype_of(add_component(World, entity, t).world, entity))
                          = held_types(entity) \cup {t.ty}
        /\ \A T \in held_types(entity) :
               /\ MigrationTarget(remove_component(World, entity, T), entity)
               /\ type_set(archetype_of(remove_component(World, entity, T).world, entity))
                      = held_types(entity) \ {T}

\* C30 witness: an entity has just been migrated to an archetype of a lower
\* index than the one it left, and another to one of a higher index can follow.
C30_Witness ==
    /\ last.op \in {"add_component", "remove_component"}
    /\ last.entity \in Live
    /\ Len(archetypes) >= 2
    /\ location_of(World, last.entity).archetype_index = 0
    /\ \E a \in 2..Len(archetypes) :
           type_set(archetypes[a]) \in
               {held_types(last.entity) \cup {T} : T \in TypeIds \ held_types(last.entity)}
                   \cup {held_types(last.entity) \ {T} : T \in held_types(last.entity)}

====
